---- MODULE Spec2Model ----
(***************************************************************************)
(* Zantetsu node bindings (bindings/node/src/index.ts): the reference      *)
(* JavaScript parser JsHeuristicParser, the HeuristicParser wrapper, the   *)
(* backend selection (initNative / getParser) and the convenience          *)
(* functions.                                                              *)
(*                                                                         *)
(* A JavaScript string is a sequence of one-character strings.  A regular  *)
(* expression is modelled by an operator that computes its leftmost match  *)
(* at or after a start index, with the greedy choices the pattern forces.  *)
(* Positions are 1-based; a match is [start, end, g1, g2] with end the     *)
(* index after the last matched character.                                 *)
(***************************************************************************)
EXTENDS Integers, Sequences, FiniteSets, TLC

(***************************************************************************)
(* Characters and strings                                                  *)
(***************************************************************************)
Str(s) == [i \in 1..Len(s) |-> SubSeq(s, i, i)]

LowerSeq == Str("abcdefghijklmnopqrstuvwxyz")
UpperSeq == Str("ABCDEFGHIJKLMNOPQRSTUVWXYZ")
DigitSeq == Str("0123456789")

Lower == {LowerSeq[i] : i \in 1..Len(LowerSeq)}
Upper == {UpperSeq[i] : i \in 1..Len(UpperSeq)}
Digit == {DigitSeq[i] : i \in 1..Len(DigitSeq)}
\* \w
Word == Lower \cup Upper \cup Digit \cup {"_"}
\* \s (the ASCII part the inputs use)
Space == {" ", "\t"}
\* [A-Fa-f0-9]
Hex == Digit \cup {"a", "b", "c", "d", "e", "f", "A", "B", "C", "D", "E", "F"}
\* [\s\-.]
\* a delimiter class that also holds the opening parenthesis
DelimWithParen == Space \cup {"-", ".", "("}

Delim == Space \cup {"-", "."}

ToLowerCh(c) ==
    IF c \in Upper THEN LowerSeq[CHOOSE i \in 1..Len(UpperSeq) : UpperSeq[i] = c] ELSE c
ToUpperCh(c) ==
    IF c \in Lower THEN UpperSeq[CHOOSE i \in 1..Len(LowerSeq) : LowerSeq[i] = c] ELSE c
\* String.prototype.toLowerCase / toUpperCase
ToLowerCase(s) == [i \in 1..Len(s) |-> ToLowerCh(s[i])]
ToUpperCase(s) == [i \in 1..Len(s) |-> ToUpperCh(s[i])]

\* the character at i, or "" outside the string ("" is in no class)
At(s, i) == IF i >= 1 /\ i <= Len(s) THEN s[i] ELSE ""

\* length of the longest run of characters of class C starting at i, and
\* of characters other than those of X
RECURSIVE Run(_, _, _)
Run(s, i, C) == IF At(s, i) \in C THEN 1 + Run(s, i + 1, C) ELSE 0
RECURSIVE RunNot(_, _, _)
RunNot(s, i, X) == IF i >= 1 /\ i <= Len(s) /\ s[i] \notin X THEN 1 + RunNot(s, i + 1, X) ELSE 0

\* a trim that leaves the white space in place
TrimNothing(s) == s

\* String.prototype.trim
Trim(s) ==
    IF \A i \in 1..Len(s) : s[i] \in Space THEN << >>
    ELSE LET a == CHOOSE i \in 1..Len(s) : s[i] \notin Space /\ \A j \in 1..(i - 1) : s[j] \in Space
             b == CHOOSE i \in 1..Len(s) : s[i] \notin Space /\ \A j \in (i + 1)..Len(s) : s[j] \in Space
         IN  SubSeq(s, a, b)

\* whether t occurs in s at position i
OccursAt(s, t, i) ==
    /\ i >= 1
    /\ i + Len(t) - 1 <= Len(s)
    /\ \A j \in 1..Len(t) : s[i + j - 1] = t[j]

\* String.prototype.includes
Includes(s, t) == \E i \in 1..(Len(s) + 1) : OccursAt(s, t, i)

\* String.prototype.indexOf / lastIndexOf, 1-based, 0 when absent
IndexOf(s, t) ==
    IF Includes(s, t)
    THEN CHOOSE i \in 1..(Len(s) + 1) :
            OccursAt(s, t, i) /\ \A j \in 1..(i - 1) : ~OccursAt(s, t, j)
    ELSE 0
LastIndexOf(s, t) ==
    IF Includes(s, t)
    THEN CHOOSE i \in 1..(Len(s) + 1) :
            OccursAt(s, t, i) /\ \A j \in (i + 1)..(Len(s) + 1) : ~OccursAt(s, t, j)
    ELSE 0

\* parseInt(digits, 10) of a non-empty digit string
DigitVal(c) == (CHOOSE i \in 1..Len(DigitSeq) : DigitSeq[i] = c) - 1
RECURSIVE ParseInt(_)
ParseInt(d) ==
    IF d = << >> THEN 0
    ELSE 10 * ParseInt(SubSeq(d, 1, Len(d) - 1)) + DigitVal(d[Len(d)])

\* optional values: null is None, a value v is Some(v)
None == << >>
Some(v) == << v >>
IsSome(o) == o # << >>
Val(o) == o[1]

(***************************************************************************)
(* The regular expressions of JsHeuristicParser (index.ts 51-60).  Each    *)
(* pattern has a matcher: its match that starts exactly at index p of s.   *)
(***************************************************************************)
\* the RegExp objects a JsHeuristicParser holds
RegexNames == {"reResolution", "reGroup", "reEpisode", "reEpisodeV", "reEpisodeRange",
               "reSeason", "reYear", "reExtension", "reCrc32"}

\* the flags each pattern is written with; reBracketed = /\[[^\]]*\]/g and
\* reParenthesized = /\([^\)]*\)/g are the literals of extractTitle
\* reExtension written with the g flag, which makes exec remember lastIndex
reFlagsGlobalExtension(re) ==
    IF re \in {"reResolution", "reEpisodeV", "reEpisodeRange", "reSeason"} THEN {"i"}
    ELSE IF re \in {"reBracketed", "reParenthesized", "reExtension"} THEN {"g"}
    ELSE {}

reFlags(re) ==
    IF re \in {"reResolution", "reEpisodeV", "reEpisodeRange", "reSeason"} THEN {"i"}
    ELSE IF re \in {"reBracketed", "reParenthesized"} THEN {"g"}
    ELSE {}

IsGlobal(re) == "g" \in reFlags(re)
IgnoreCase(re) == "i" \in reFlags(re)

\* a literal letter of a pattern, under the pattern's i flag
Lit(re, c) == IF IgnoreCase(re) THEN {ToLowerCh(c), ToUpperCh(c)} ELSE {c}

NoMatch == [start |-> 0, end |-> 0, g1 |-> << >>, g2 |-> << >>]
Found(m) == m.start # 0
Match(start, end, g1, g2) == [start |-> start, end |-> end, g1 |-> g1, g2 |-> g2]

\* reGroup = /^\[([^\]]+)\]/
GroupBody(s, p, k) ==
    IF p = 1 /\ At(s, p) = "[" /\ k >= 1 /\ At(s, p + 1 + k) = "]"
    THEN Match(p, p + k + 2, SubSeq(s, p + 1, p + k), << >>)
    ELSE NoMatch
MatchGroupAt(s, p) == GroupBody(s, p, RunNot(s, p + 1, {"]"}))

\* reExtension = /\.(\w+)$/
ExtensionBody(s, p, k) ==
    IF At(s, p) = "." /\ k >= 1 /\ p + k = Len(s)
    THEN Match(p, p + k + 1, SubSeq(s, p + 1, p + k), << >>)
    ELSE NoMatch
MatchExtensionAt(s, p) == ExtensionBody(s, p, Run(s, p + 1, Word))

\* reCrc32 = /\[([A-Fa-f0-9]{8})\]/
MatchCrc32At(s, p) ==
    IF /\ At(s, p) = "["
       /\ \A j \in (p + 1)..(p + 8) : At(s, j) \in Hex
       /\ At(s, p + 9) = "]"
    THEN Match(p, p + 10, SubSeq(s, p + 1, p + 8), << >>)
    ELSE NoMatch

\* reYear = /\((\d{4})\)/
MatchYearAt(s, p) ==
    IF /\ At(s, p) = "("
       /\ \A j \in (p + 1)..(p + 4) : At(s, j) \in Digit
       /\ At(s, p + 5) = ")"
    THEN Match(p, p + 6, SubSeq(s, p + 1, p + 4), << >>)
    ELSE NoMatch

\* reSeason = /(?:^|[\s\-])S(\d+)/i : at p either the start of the input
\* (the ^ alternative, tried first) or one delimiter character; d is where
\* the S has to be
SeasonBody(s, p, d, S, k) ==
    IF d # 0 /\ At(s, d) \in S /\ k >= 1
    THEN Match(p, d + 1 + k, SubSeq(s, d + 1, d + k), << >>)
    ELSE NoMatch
SeasonFrom(s, p, d) == SeasonBody(s, p, d, Lit("reSeason", "S"), Run(s, d + 1, Digit))
MatchSeasonAt(s, p) ==
    IF p = 1 /\ Found(SeasonFrom(s, p, p)) THEN SeasonFrom(s, p, p)
    ELSE SeasonFrom(s, p, IF At(s, p) \in (Space \cup {"-"}) THEN p + 1 ELSE 0)

\* the common head of the episode patterns, (?:[\s\-.])(?:[Ee]p?\.?)?\s* :
\* with the delimiter at p, the index where the digits have to begin, 0 when
\* p holds no delimiter.  Every optional part is taken when it can be: none
\* of the characters it takes could be matched by what follows it.
SkipDot(s, b) == IF At(s, b) = "." THEN b + 1 ELSE b
SkipP(s, a, P) == SkipDot(s, IF At(s, a) \in P THEN a + 1 ELSE a)
SkipSpace(s, q) == q + Run(s, q, Space)
EpisodeHead(re, s, p) ==
    IF At(s, p) \notin Delim THEN 0
    ELSE SkipSpace(s, IF At(s, p + 1) \in {"E", "e"}
                      THEN SkipP(s, p + 2, Lit(re, "p")) ELSE p + 1)

\* reEpisodeV = /(?:[\s\-.])(?:[Ee]p?\.?)?\s*(\d{1,4})v(\d+)/i
\* d: where the digits begin, k: how many there are, m: digits after the v
EpisodeVBody(s, p, d, k, v, m) ==
    IF d # 0 /\ k >= 1 /\ k <= 4 /\ At(s, d + k) \in v /\ m >= 1
    THEN Match(p, d + k + 1 + m, SubSeq(s, d, d + k - 1), SubSeq(s, d + k + 1, d + k + m))
    ELSE NoMatch
EpisodeVDigits(s, p, d, k) ==
    EpisodeVBody(s, p, d, k, Lit("reEpisodeV", "v"), Run(s, d + k + 1, Digit))
EpisodeVFrom(s, p, d) == EpisodeVDigits(s, p, d, Run(s, d, Digit))
MatchEpisodeVAt(s, p) == EpisodeVFrom(s, p, EpisodeHead("reEpisodeV", s, p))

\* reEpisodeRange = /(?:[\s\-.])(?:[Ee]p?\.?)?\s*(\d{1,4})\s*[-~]\s*(\d{1,4})/i
\* r: where the - or ~ has to be, d2: where the second number begins, n: the
\* digits there, of which the pattern takes at most four
Min4(n) == IF n > 4 THEN 4 ELSE n
EpisodeRangeBody(s, p, d, k, r, d2, n) ==
    IF d # 0 /\ k >= 1 /\ k <= 4 /\ At(s, r) \in {"-", "~"} /\ n >= 1
    THEN Match(p, d2 + Min4(n), SubSeq(s, d, d + k - 1), SubSeq(s, d2, d2 + Min4(n) - 1))
    ELSE NoMatch
EpisodeRangeSecond(s, p, d, k, r, d2) == EpisodeRangeBody(s, p, d, k, r, d2, Run(s, d2, Digit))
EpisodeRangeSep(s, p, d, k, r) == EpisodeRangeSecond(s, p, d, k, r, SkipSpace(s, r + 1))
EpisodeRangeDigits(s, p, d, k) == EpisodeRangeSep(s, p, d, k, SkipSpace(s, d + k))
EpisodeRangeFrom(s, p, d) == EpisodeRangeDigits(s, p, d, Run(s, d, Digit))
MatchEpisodeRangeAt(s, p) == EpisodeRangeFrom(s, p, EpisodeHead("reEpisodeRange", s, p))

\* reEpisode = /(?:[\s\-.])(?:[Ee]p?\.?)?\s*(\d{1,4})(?:\b|v\d|[^\d])/
\* after the digits: a word boundary (nothing consumed), else "v" and a
\* digit, else one non-digit character
EpisodeTail(s, e) ==
    IF At(s, e) \notin Word THEN 0
    ELSE IF At(s, e) \in Lit("reEpisode", "v") /\ At(s, e + 1) \in Digit THEN 2
    ELSE 1
EpisodeBody(s, p, d, k) ==
    IF d # 0 /\ k >= 1 /\ k <= 4
    THEN Match(p, d + k + EpisodeTail(s, d + k), SubSeq(s, d, d + k - 1), << >>)
    ELSE NoMatch
EpisodeFrom(s, p, d) == EpisodeBody(s, p, d, Run(s, d, Digit))
MatchEpisodeAt(s, p) == EpisodeFrom(s, p, EpisodeHead("reEpisode", s, p))

\* /\[[^\]]*\]/ and /\([^\)]*\)/ : an opening character, then everything up
\* to the first closing one
EnclosedBody(s, p, open, close, k) ==
    IF At(s, p) = open /\ At(s, p + 1 + k) = close
    THEN Match(p, p + k + 2, << >>, << >>)
    ELSE NoMatch
MatchBracketedAt(s, p) == EnclosedBody(s, p, "[", "]", RunNot(s, p + 1, {"]"}))
MatchParenthesizedAt(s, p) == EnclosedBody(s, p, "(", ")", RunNot(s, p + 1, {")"}))

\* the match of pattern re in s that starts exactly at index p
MatchAt(re, s, p) ==
    CASE re = "reGroup" -> MatchGroupAt(s, p)
      [] re = "reEpisode" -> MatchEpisodeAt(s, p)
      [] re = "reEpisodeV" -> MatchEpisodeVAt(s, p)
      [] re = "reEpisodeRange" -> MatchEpisodeRangeAt(s, p)
      [] re = "reSeason" -> MatchSeasonAt(s, p)
      [] re = "reYear" -> MatchYearAt(s, p)
      [] re = "reExtension" -> MatchExtensionAt(s, p)
      [] re = "reCrc32" -> MatchCrc32At(s, p)
      [] re = "reBracketed" -> MatchBracketedAt(s, p)
      [] re = "reParenthesized" -> MatchParenthesizedAt(s, p)

\* the leftmost match of pattern re in s that starts at index from or later
\* (m is what the pattern matches at from)
RECURSIVE Find(_, _, _)
MatchOrNext(re, s, from, m) == IF Found(m) THEN m ELSE Find(re, s, from + 1)
Find(re, s, from) ==
    IF from > Len(s) THEN NoMatch ELSE MatchOrNext(re, s, from, MatchAt(re, s, from))

\* RegExp.prototype.exec: a pattern without the g flag searches from the
\* start and leaves lastIndex alone; with it the search starts at lastIndex,
\* which is then set to the end of the match, or to 0 when there is none
Exec(re, s, lastIndex) == Find(re, s, IF IsGlobal(re) THEN lastIndex + 1 ELSE 1)
EndOf(m) == IF Found(m) THEN m.end - 1 ELSE 0
ExecLastIndex(re, s, lastIndex) ==
    IF IsGlobal(re) THEN EndOf(Exec(re, s, lastIndex)) ELSE lastIndex

\* String.prototype.replace(re, ' '): the first match of a pattern without
\* the g flag, every match (left to right, not overlapping) of one with it
Splice(s, from, m) == SubSeq(s, from, m.start - 1) \o << " " >> \o SubSeq(s, m.end, Len(s))
ReplaceFirst(s, m) == IF Found(m) THEN Splice(s, 1, m) ELSE s
RECURSIVE ReplaceAllFrom(_, _, _)
ReplaceNext(re, s, from, m) ==
    IF Found(m)
    THEN SubSeq(s, from, m.start - 1) \o << " " >> \o ReplaceAllFrom(re, s, m.end)
    ELSE SubSeq(s, from, Len(s))
ReplaceAllFrom(re, s, from) == ReplaceNext(re, s, from, Find(re, s, from))
Replace(re, s) ==
    IF IsGlobal(re) THEN ReplaceAllFrom(re, s, 1) ELSE ReplaceFirst(s, Find(re, s, 1))

(***************************************************************************)
(* JsHeuristicParser: the field extractors.  li is the lastIndex of the    *)
(* parser's RegExp objects when the call begins.                           *)
(***************************************************************************)
\* the group taken from match[0], the brackets included
TrimmedWholeMatch(match) ==
    IF Found(match) THEN Some(Str("[") \o Trim(match.g1) \o Str("]")) ELSE None

TrimmedGroup(match) == IF Found(match) THEN Some(Trim(match.g1)) ELSE None
extractGroup(input, li) == TrimmedGroup(Exec("reGroup", input, li["reGroup"]))

LowerGroup(match) == IF Found(match) THEN Some(ToLowerCase(match.g1)) ELSE None
extractExtension(input, li) ==
    LowerGroup(Exec("reExtension", input, li["reExtension"]))

UpperGroup(match) == IF Found(match) THEN Some(ToUpperCase(match.g1)) ELSE None
extractCrc32(input, li) == UpperGroup(Exec("reCrc32", input, li["reCrc32"]))

\* the markers looked for from the lowest to the highest
extractResolutionLowestFirst(input) ==
    IF Includes(input, Str("480p")) \/ Includes(input, Str("480i")) THEN Some("SD480")
    ELSE IF Includes(input, Str("720p")) \/ Includes(input, Str("720i")) THEN Some("HD720")
    ELSE IF Includes(input, Str("1080p")) \/ Includes(input, Str("1080i")) THEN Some("FHD1080")
    ELSE IF Includes(input, Str("2160p")) \/ Includes(input, Str("2160i")) THEN Some("UHD2160")
    ELSE None

extractResolution(input) ==
    IF Includes(input, Str("2160p")) \/ Includes(input, Str("2160i")) THEN Some("UHD2160")
    ELSE IF Includes(input, Str("1080p")) \/ Includes(input, Str("1080i")) THEN Some("FHD1080")
    ELSE IF Includes(input, Str("720p")) \/ Includes(input, Str("720i")) THEN Some("HD720")
    ELSE IF Includes(input, Str("480p")) \/ Includes(input, Str("480i")) THEN Some("SD480")
    ELSE None

IntGroup(match) == IF Found(match) THEN Some(ParseInt(match.g1)) ELSE None
extractSeason(input, li) == IntGroup(Exec("reSeason", input, li["reSeason"]))
extractYear(input, li) == IntGroup(Exec("reYear", input, li["reYear"]))

\* the three attempts of extractEpisode
VersionedAttempt(input, li) == Exec("reEpisodeV", input, li["reEpisodeV"])
RangeAttempt(input, li) == Exec("reEpisodeRange", input, li["reEpisodeRange"])
SingleAttempt(input, li) == Exec("reEpisode", input, li["reEpisode"])

\* a range test that lets every pair through
RangeAcceptedAlways(start, end) == TRUE

\* the test a range match has to pass
RangeAccepted(start, end) == start < end
RangeValid(r) == Found(r) /\ RangeAccepted(ParseInt(r.g1), ParseInt(r.g2))

VersionedSpec(v) ==
    Some([type |-> "versioned", episode |-> ParseInt(v.g1), version |-> ParseInt(v.g2)])
RangeSpec(r) == Some([type |-> "range", start |-> ParseInt(r.g1), end |-> ParseInt(r.g2)])
SingleSpec(e) == IF Found(e) THEN Some([type |-> "single", episode |-> ParseInt(e.g1)]) ELSE None

\* the range attempt made before the versioned one
EpisodeOfRangeFirst(v, r, e) ==
    IF RangeValid(r) THEN RangeSpec(r)
    ELSE IF Found(v) THEN VersionedSpec(v)
    ELSE SingleSpec(e)

\* v, r, e: what the versioned, range and single patterns match in the input
EpisodeOf(v, r, e) ==
    IF Found(v) THEN VersionedSpec(v)
    ELSE IF RangeValid(r) THEN RangeSpec(r)
    ELSE SingleSpec(e)

\* whether control reaches the second and the third attempt
RangeTried(input, li) == ~Found(VersionedAttempt(input, li))
SingleTried(input, li) == RangeTried(input, li) /\ ~RangeValid(RangeAttempt(input, li))

extractEpisode(input, li) ==
    EpisodeOf(VersionedAttempt(input, li), RangeAttempt(input, li), SingleAttempt(input, li))

\* JavaScript truthiness of a string | null field
Truthy(o) == IsSome(o) /\ Val(o) # << >>

\* the clean-up chain of extractTitle: [._] and - become spaces, then
\* split(/\s+/).filter(Boolean).join(' ').trim()
Despace(s) == [i \in 1..Len(s) |-> IF s[i] \in {".", "_", "-"} THEN " " ELSE s[i]]
RECURSIVE JoinWordsFrom(_, _)
JoinWordsFrom(s, i) ==
    LET a == i + Run(s, i, Space)
        k == RunNot(s, a, Space)
        rest == JoinWordsFrom(s, a + k)
    IN  IF a > Len(s) THEN << >>
        ELSE SubSeq(s, a, a + k - 1) \o (IF rest = << >> THEN << >> ELSE << " " >> \o rest)
CleanUp(work) == JoinWordsFrom(Despace(work), 1)

\* work || null
OrNull(work) == IF work # << >> THEN Some(work) ELSE None

\* extractTitle, "Remove group tag"
RemoveGroupTag(input, group) ==
    LET groupIdx == IndexOf(input, << "]" >>)
    IN  IF Truthy(group) /\ groupIdx # 0 THEN SubSeq(input, groupIdx + 1, Len(input)) ELSE input

\* extractTitle, "Remove extension"
RemoveExtension(work, extension) ==
    LET extPos == IF Truthy(extension) THEN LastIndexOf(work, << "." >> \o Val(extension)) ELSE 0
    IN  IF extPos # 0 THEN SubSeq(work, 1, extPos - 1) ELSE work

\* extractTitle, "Remove episode info": the three episode passes, then the
\* season and the year
RemoveVersioned(work) == Replace("reEpisodeV", work)
RemoveRange(work) == Replace("reEpisodeRange", work)
RemoveSingle(work) == Replace("reEpisode", work)
RemoveEpisodeInfo(work) ==
    Replace("reYear", Replace("reSeason", RemoveSingle(RemoveRange(RemoveVersioned(work)))))

\* extractTitle, "Remove bracketed content"
RemoveBracketed(work) == Replace("reParenthesized", Replace("reBracketed", work))

extractTitle(input, group, extension) ==
    OrNull(CleanUp(RemoveBracketed(RemoveEpisodeInfo(
        RemoveExtension(RemoveGroupTag(input, group), extension)))))

\* the title adds nothing to fieldsPresent
FieldsPresentWithoutTitle(r) ==
    (IF Truthy(r.group) THEN 1 ELSE 0)
    + (IF IsSome(r.episode) THEN 1 ELSE 0)
    + (IF IsSome(r.resolution) THEN 1 ELSE 0)
    + (IF IsSome(r.video_codec) THEN 1 ELSE 0)
    + (IF IsSome(r.audio_codec) THEN 1 ELSE 0)
    + (IF IsSome(r.source) THEN 1 ELSE 0)

\* fieldsPresent / fieldsTotal, as the pair [num, den]
FieldsPresent(r) ==
    (IF Truthy(r.title) THEN 2 ELSE 0)
    + (IF Truthy(r.group) THEN 1 ELSE 0)
    + (IF IsSome(r.episode) THEN 1 ELSE 0)
    + (IF IsSome(r.resolution) THEN 1 ELSE 0)
    + (IF IsSome(r.video_codec) THEN 1 ELSE 0)
    + (IF IsSome(r.audio_codec) THEN 1 ELSE 0)
    + (IF IsSome(r.source) THEN 1 ELSE 0)
FieldsTotal(r) == 7 + (IF Truthy(r.title) THEN 1 ELSE 0)

\* Math.min(a, 1.0) of the ratio a = num / den
MinOne(a) == IF a.num > a.den THEN [num |-> 1, den |-> 1] ELSE a

\* the weight of the present fields, not divided by the total
computeConfidenceUndivided(r) == [num |-> FieldsPresent(r), den |-> 1]

computeConfidence(r) == MinOne([num |-> FieldsPresent(r), den |-> FieldsTotal(r)])

\* what a call hands back: a value, or a thrown Error
Return(v) == [kind |-> "ok", value |-> v]
Throw(msg) == [kind |-> "error", message |-> msg]

\* JsHeuristicParser.parse after the empty check: the fields filled by the
\* extractors, then the title, then the confidence
Extracted(trimmed, li) ==
    [input       |-> trimmed,
     title       |-> None,
     group       |-> extractGroup(trimmed, li),
     episode     |-> extractEpisode(trimmed, li),
     season      |-> extractSeason(trimmed, li),
     resolution  |-> extractResolution(trimmed),
     video_codec |-> None,
     audio_codec |-> None,
     source      |-> None,
     year        |-> extractYear(trimmed, li),
     crc32       |-> extractCrc32(trimmed, li),
     extension   |-> extractExtension(trimmed, li),
     version     |-> None,
     confidence  |-> [num |-> 0, den |-> 1],
     parse_mode  |-> "Light"]
WithTitle(trimmed, result) ==
    [result EXCEPT !.title = extractTitle(trimmed, result.group, result.extension)]
WithConfidence(result) == [result EXCEPT !.confidence = computeConfidence(result)]
JsParseResult(trimmed, li) == WithConfidence(WithTitle(trimmed, Extracted(trimmed, li)))

\* the lastIndex of each RegExp object after the call: exec moves it (see
\* ExecLastIndex); the patterns extractTitle hands to replace end at 0 when
\* they carry the g flag and are left alone when they do not
JsParseLastIndex(trimmed, li) ==
    [re \in RegexNames |->
        CASE re = "reGroup" -> ExecLastIndex(re, trimmed, li[re])
          [] re = "reExtension" -> ExecLastIndex(re, trimmed, li[re])
          [] re = "reCrc32" -> ExecLastIndex(re, trimmed, li[re])
          [] re = "reResolution" -> li[re]
          [] OTHER -> IF IsGlobal(re) THEN 0 ELSE li[re]]

\* JsHeuristicParser.parse: the outcome and the lastIndex values it leaves
JsParse(input, li) ==
    LET trimmed == Trim(input)
    IN  IF trimmed = << >>
        THEN [outcome |-> Throw("input is empty or whitespace-only"), lastIndex |-> li]
        ELSE [outcome |-> Return(JsParseResult(trimmed, li)),
              lastIndex |-> JsParseLastIndex(trimmed, li)]

ZeroLastIndex == [re \in RegexNames |-> 0]

(***************************************************************************)
(* The native addon '@zan/heuristic-node' and the conversion of what it    *)
(* returns (index.ts 245-305).  A value coming from the addon is           *)
(* [js |-> "null"], [js |-> "number", num |-> n] or an object              *)
(* [js |-> "object", ...] whose properties are optional.                   *)
(***************************************************************************)
JsNull == [js |-> "null"]
JsNumber(n) == [js |-> "number", num |-> n]
JsObject(type, episode, version, start, end, episodes) ==
    [js |-> "object", type |-> type, episode |-> episode, version |-> version,
     start |-> start, end |-> end, episodes |-> episodes]

\* a property read through an "as number" cast: the value, or undefined
Undefined == "undefined"
Prop(o) == IF IsSome(o) THEN Val(o) ELSE Undefined

\* !native
Falsy(native) == native.js = "null" \/ (native.js = "number" /\ native.num = 0)

convertEpisodeSpec(native) ==
    IF Falsy(native) THEN None
    ELSE IF native.js = "number" THEN Some([type |-> "single", episode |-> native.num])
    ELSE LET n == native
             single    == Some([type |-> "single", episode |-> Prop(n.episode)])
             range     == Some([type |-> "range", start |-> Prop(n.start), end |-> Prop(n.end)])
             multi     == Some([type |-> "multi", episodes |-> Prop(n.episodes)])
             versioned == Some([type |-> "versioned", episode |-> Prop(n.episode),
                                version |-> Prop(n.version)])
         IN  IF IsSome(n.type) /\ Val(n.type) \in 0..3
             THEN CASE Val(n.type) = 0 -> single
                    [] Val(n.type) = 1 -> range
                    [] Val(n.type) = 2 -> multi
                    [] Val(n.type) = 3 -> versioned
             ELSE IF IsSome(n.episode) /\ IsSome(n.version) THEN versioned
             ELSE IF IsSome(n.start) /\ IsSome(n.end) THEN range
             ELSE IF IsSome(n.episodes) THEN multi
             ELSE None

convertResult(native) == [native EXCEPT !.episode = convertEpisodeSpec(native.episode)]

\* the addon's encoding of an episode: an object tagged with a number
NativeEpisode(e) ==
    IF ~IsSome(e) THEN JsNull
    ELSE CASE Val(e).type = "single" ->
                JsObject(Some(0), Some(Val(e).episode), None, None, None, None)
           [] Val(e).type = "range" ->
                JsObject(Some(1), None, None, Some(Val(e).start), Some(Val(e).end), None)
           [] Val(e).type = "versioned" ->
                JsObject(Some(3), Some(Val(e).episode), Some(Val(e).version), None, None, None)

\* the addon's HeuristicParser.parse: the Rust parser the reference parser
\* "matches" (index.ts 46-47), its episode in the addon's encoding
Encoded(r) == [r EXCEPT !.episode = NativeEpisode(r.episode)]
NativeParserParse(input) == Encoded(JsParseResult(Trim(input), ZeroLastIndex))

(***************************************************************************)
(* The module state of index.ts and the HeuristicParser wrapper            *)
(***************************************************************************)
VARIABLES
    nativeInstalled,  \* environment: whether require('@zan/heuristic-node') succeeds
    initialized,      \* index.ts 24
    probes,           \* how many times the require of index.ts 35 was attempted
    useNative,        \* index.ts 22
    nativeModule,     \* index.ts 23: "null" or "module"
    jsParser,         \* index.ts 225: "null" or "parser"
    nativeParser,     \* index.ts 226: "null" or "parser"
    lastIndex,        \* lastIndex of each RegExp object of jsParser
    defaultParser,    \* index.ts 344: None or Some(instance)
    parsers,          \* the HeuristicParser instances the callers hold
    call,             \* the call last made, [op, this, arg]
    ret,              \* None, or Some(outcome) until the caller takes it
    applied,          \* how many times the call applied parse to an input
    memo              \* for one input a caller repeats: the outcome of its first parse

vars == << nativeInstalled, initialized, probes, useNative, nativeModule, jsParser, nativeParser,
           lastIndex, defaultParser, parsers, call, ret, applied, memo >>

MaxParsers == 1
MaxBatch == 2

\* the inputs the callers pass
ApiInputs ==
    { Str(""), Str("   "), Str(" \t"), Str("a"), Str("-12-01"),
      Str("  [G] T - 01.mkv "),
      Str("](v~.S"),
      Str("[SubsPlease] Jujutsu Kaisen - 24 (1080p) [A1B2C3D4].mkv") }
BatchItems == { Str(" "), Str("[G] T - 01.mkv"), Str("T.02.mkv") }
Batches == UNION { [1..n -> BatchItems] : n \in 0..MaxBatch }

\* the module-level variables as one record
Mod ==
    [initialized |-> initialized, probes |-> probes, useNative |-> useNative, nativeModule |-> nativeModule,
     jsParser |-> jsParser, nativeParser |-> nativeParser, lastIndex |-> lastIndex,
     defaultParser |-> defaultParser]

\* useNative is set whether or not require succeeds
initNativeAlwaysNative(m, installed) ==
    IF m.initialized THEN m
    ELSE [m EXCEPT !.initialized = TRUE,
                   !.probes = m.probes + 1,
                   !.nativeModule = IF installed THEN "module" ELSE "null",
                   !.useNative = TRUE]

\* the addon is required on every call, initialized or not
initNativeUnguarded(m, installed) ==
    [m EXCEPT !.initialized = TRUE,
              !.probes = m.probes + 1,
              !.nativeModule = IF installed THEN "module" ELSE "null",
              !.useNative = installed]

initNative(m, installed) ==
    IF m.initialized THEN m
    ELSE [m EXCEPT !.initialized = TRUE,
                   !.probes = m.probes + 1,
                   !.nativeModule = IF installed THEN "module" ELSE "null",
                   !.useNative = installed]

\* getParser: the module state it leaves and the parser it returns
getParser(m, installed) ==
    LET m1 == initNative(m, installed)
    IN  IF m1.useNative
        THEN [mod |-> [m1 EXCEPT !.nativeParser = "parser"], parser |-> "native"]
        ELSE [mod |-> [m1 EXCEPT !.jsParser = "parser",
                                 !.lastIndex = IF m1.jsParser = "null"
                                               THEN ZeroLastIndex ELSE m1.lastIndex],
              parser |-> "js"]

\* new HeuristicParser(options)
NewHeuristicParser(m, installed) ==
    LET g == getParser(m, installed)
    IN  [mod |-> g.mod, this |-> [parser |-> g.parser]]

\* this.parser.parse(input): the outcome and the lastIndex values it leaves
ParserParse(this, input, m) ==
    IF this.parser = "js" THEN JsParse(input, m.lastIndex)
    ELSE [outcome |-> Return(NativeParserParse(input)), lastIndex |-> m.lastIndex]

\* useNative ? convertResult(result) : result
Converted(m, r) ==
    [mod |-> [m EXCEPT !.lastIndex = r.lastIndex],
     outcome |-> IF r.outcome.kind = "ok" /\ m.useNative
                 THEN Return(convertResult(r.outcome.value))
                 ELSE r.outcome,
     applied |-> 1]

\* HeuristicParser.parse
HeuristicParserParse(this, input, m) ==
    IF Trim(input) = << >>
    THEN [mod |-> m, outcome |-> Throw("Input must be a non-empty string"), applied |-> 0]
    ELSE Converted(m, ParserParse(this, input, m))

\* inputs.map(input => this.parse(input)): the elements in order, a throw
\* ending the call; r is what parse made of inputs[i]
RECURSIVE MapParse(_, _, _, _, _)
\* an element that fails is left out and the rest is still parsed
MapStepSkipping(this, inputs, i, acc, r) ==
    IF r.outcome.kind = "error"
    THEN MapParse(this, inputs, i + 1, r.mod, acc)
    ELSE MapParse(this, inputs, i + 1, r.mod, Append(acc, r.outcome.value))

MapStep(this, inputs, i, acc, r) ==
    IF r.outcome.kind = "error"
    THEN [mod |-> r.mod, outcome |-> r.outcome, applied |-> i]
    ELSE MapParse(this, inputs, i + 1, r.mod, Append(acc, r.outcome.value))
MapParse(this, inputs, i, m, acc) ==
    IF i > Len(inputs) THEN [mod |-> m, outcome |-> Return(acc), applied |-> i - 1]
    ELSE MapStep(this, inputs, i, acc, HeuristicParserParse(this, inputs[i], m))

\* HeuristicParser.parseBatch
HeuristicParserParseBatch(this, inputs, m) == MapParse(this, inputs, 1, m, << >>)

\* getDefaultParser
getDefaultParser(m, installed) ==
    IF IsSome(m.defaultParser) THEN [mod |-> m, this |-> Val(m.defaultParser)]
    ELSE LET n == NewHeuristicParser(m, installed)
         IN  [mod |-> [n.mod EXCEPT !.defaultParser = Some(n.this)], this |-> n.this]

(***************************************************************************)
(* The state machine: one action per exported operation                    *)
(***************************************************************************)
NoCall == [op |-> "none", this |-> 0, arg |-> << >>]
NoMemo(t) == [input |-> t, calls |-> 0, first |-> None, others |-> FALSE, between |-> FALSE]

SetMod(m) ==
    /\ initialized' = m.initialized
    /\ probes' = m.probes
    /\ useNative' = m.useNative
    /\ nativeModule' = m.nativeModule
    /\ jsParser' = m.jsParser
    /\ nativeParser' = m.nativeParser
    /\ lastIndex' = m.lastIndex
    /\ defaultParser' = m.defaultParser

\* what is remembered of the parse calls on memo.input: the outcome of the
\* first one, whether a second one was made, and whether other calls were
\* made between the two.  A parse of input (isParse) or another call has
\* just returned outcome.
Remember(isParse, input, outcome) ==
    IF isParse /\ input = memo.input
    THEN IF memo.calls = 0
         THEN [memo EXCEPT !.calls = 1, !.first = Some(outcome)]
         ELSE [memo EXCEPT !.calls = 2, !.between = memo.others]
    ELSE IF memo.calls = 1 THEN [memo EXCEPT !.others = TRUE]
    ELSE memo

Init ==
    /\ nativeInstalled \in BOOLEAN
    /\ initialized = FALSE
    /\ probes = 0
    /\ useNative = FALSE
    /\ nativeModule = "null"
    /\ jsParser = "null"
    /\ nativeParser = "null"
    /\ lastIndex = ZeroLastIndex
    /\ defaultParser = None
    /\ parsers = << >>
    /\ call = NoCall
    /\ ret = None
    /\ applied = 0
    /\ memo \in {NoMemo(t) : t \in ApiInputs}

\* new HeuristicParser()
Construct ==
    /\ ret = None
    /\ Len(parsers) < MaxParsers
    /\ LET n == NewHeuristicParser(Mod, nativeInstalled)
       IN  /\ SetMod(n.mod)
           /\ parsers' = Append(parsers, n.this)
           /\ call' = [op |-> "new", this |-> 0, arg |-> << >>]
           /\ ret' = Some(Return(Len(parsers) + 1))
           /\ applied' = 0
           /\ memo' = Remember(FALSE, << >>, << >>)
    /\ UNCHANGED nativeInstalled

\* a parse or parseBatch call ends: r is what it leaves and hands back
Respond(op, this, arg, r) ==
    /\ SetMod(r.mod)
    /\ call' = [op |-> op, this |-> this, arg |-> arg]
    /\ ret' = Some(r.outcome)
    /\ applied' = r.applied
    /\ memo' = Remember(op = "parse", arg, r.outcome)
    /\ UNCHANGED << nativeInstalled, parsers >>

\* parsers[p].parse(input)
Parse(p, input) ==
    /\ ret = None
    /\ Respond("parse", p, input, HeuristicParserParse(parsers[p], input, Mod))

\* parsers[p].parseBatch(inputs)
ParseBatch(p, inputs) ==
    /\ ret = None
    /\ Respond("parseBatch", p, inputs, HeuristicParserParseBatch(parsers[p], inputs, Mod))

\* the exported parse(input)
ConvenienceParse(input) ==
    /\ ret = None
    /\ LET d == getDefaultParser(Mod, nativeInstalled)
       IN  Respond("parse", 0, input, HeuristicParserParse(d.this, input, d.mod))

\* the exported parseBatch(inputs)
ConvenienceParseBatch(inputs) ==
    /\ ret = None
    /\ LET d == getDefaultParser(Mod, nativeInstalled)
       IN  Respond("parseBatch", 0, inputs, HeuristicParserParseBatch(d.this, inputs, d.mod))

\* the exported isUsingNativeModule()
IsUsingNativeModule ==
    /\ ret = None
    /\ LET m == initNative(Mod, nativeInstalled)
       IN  /\ SetMod(m)
           /\ call' = [op |-> "isUsingNativeModule", this |-> 0, arg |-> << >>]
           /\ ret' = Some(Return(m.useNative))
           /\ applied' = 0
           /\ memo' = Remember(FALSE, << >>, << >>)
    /\ UNCHANGED << nativeInstalled, parsers >>

\* the caller takes the value returned, or catches the error
Consume ==
    /\ ret # None
    /\ ret' = None
    /\ call' = NoCall
    /\ applied' = 0
    /\ UNCHANGED << nativeInstalled, initialized, probes, useNative, nativeModule, jsParser,
                    nativeParser, lastIndex, defaultParser, parsers, memo >>

Next ==
    \/ Construct
    \/ \E p \in 1..Len(parsers), input \in ApiInputs : Parse(p, input)
    \/ \E p \in 1..Len(parsers), inputs \in Batches : ParseBatch(p, inputs)
    \/ \E input \in ApiInputs : ConvenienceParse(input)
    \/ \E inputs \in Batches : ConvenienceParseBatch(inputs)
    \/ IsUsingNativeModule
    \/ Consume

Spec == Init /\ [][Next]_vars

(***************************************************************************)
(* The same operations in a process whose environment changes: the addon   *)
(* is installed or removed while the process runs, so that a second        *)
(* require would not give what the first one gave.                         *)
(***************************************************************************)
EnvInputs == { Str(""), Str("a"), Str("[G] T - 01.mkv") }
EnvBatches == { << >>, << Str("a"), Str(" ") >>, << Str("T.02.mkv") >> }

InitEnvironment ==
    /\ Init
    /\ memo = NoMemo(Str("a"))

\* the addon appears in node_modules, or disappears from it
AddonChanges ==
    /\ nativeInstalled' = ~nativeInstalled
    /\ UNCHANGED << initialized, probes, useNative, nativeModule, jsParser, nativeParser,
                    lastIndex, defaultParser, parsers, call, ret, applied, memo >>

NextEnvironment ==
    \/ Construct
    \/ \E p \in 1..Len(parsers), input \in EnvInputs : Parse(p, input)
    \/ \E p \in 1..Len(parsers), inputs \in EnvBatches : ParseBatch(p, inputs)
    \/ \E input \in EnvInputs : ConvenienceParse(input)
    \/ \E inputs \in EnvBatches : ConvenienceParseBatch(inputs)
    \/ IsUsingNativeModule
    \/ Consume
    \/ AddonChanges

SpecEnvironment == InitEnvironment /\ [][NextEnvironment]_vars

(***************************************************************************)
(* The reference parser on its own: a HeuristicParser has been built where *)
(* the addon is not installed, and one call of JsHeuristicParser.parse is  *)
(* about to run on an input made of at most MaxTokens tokens, or on one of *)
(* the file names of index.test.ts.                                        *)
(***************************************************************************)
MaxTokens == 3

Tokens ==
    { Str("[G]"), Str("T"), Str(" "), Str("-01"), Str("-12"), Str("v2"), Str("2160p"),
      Str("1080i"), Str("720p"), Str("480p"), Str("1080P"), Str(".mkv") }

\* tokens for the season, the year, the version and the extension
MoreTokens ==
    { Str("T"), Str(" "), Str("-01"), Str(" 5"), Str("v0"), Str("S0"), Str("(2024)"),
      Str(".MKV"), Str("[ ]") }

RECURSIVE Concats(_)
Concats(n) ==
    IF n = 0 THEN { << >> }
    ELSE LET shorter == Concats(n - 1)
         IN  shorter \cup { a \o b : a \in shorter, b \in Tokens }

RECURSIVE MoreConcats(_)
MoreConcats(n) ==
    IF n = 0 THEN { << >> }
    ELSE LET shorter == MoreConcats(n - 1)
         IN  shorter \cup { a \o b : a \in shorter, b \in MoreTokens }

\* file names of index.test.ts, and some written the same way
FileNames ==
    { Str("[SubsPlease] Jujutsu Kaisen - 24 (1080p) [A1B2C3D4].mkv"),
      Str("One.Piece.1084.VOSTFR.1080p.WEB.x264-AAC.mkv"),
      Str("Anime.Title.01.720p.WEB.x264.mkv"),
      Str("[G] Title - 01 [x264].mkv"),
      Str("[Test] Show - 01 (1080P).mkv"),
      Str("[Test] Show - 01 (720I).mkv"),
      Str("[Group] Title (2024) - 01 (1080p).mkv"),
      Str("Some Random Title.mkv"),
      Str("[Erai-raws] Shingeki no Kyojin - The Final Season - 28v2 [1080p][HEVC].mkv"),
      Str("[Judas] Golden Kamuy S3 - 01-12 (1080p) [Batch]"),
      Str("[G] Title 5 - 01v2.mkv"),
      Str("[G] Title - 01.MKV"),
      Str("[G] Show S0 - 01.mkv") }

PipelineInputs == Concats(MaxTokens) \cup MoreConcats(MaxTokens) \cup FileNames

InitPipeline ==
    /\ nativeInstalled = FALSE
    /\ initialized = TRUE
    /\ probes = 1
    /\ useNative = FALSE
    /\ nativeModule = "null"
    /\ jsParser = "parser"
    /\ nativeParser = "null"
    /\ lastIndex = ZeroLastIndex
    /\ defaultParser = None
    /\ parsers = << [parser |-> "js"] >>
    /\ call \in { [op |-> "JsHeuristicParser.parse", this |-> 1, arg |-> s] : s \in PipelineInputs }
    /\ ret = None
    /\ applied = 0
    /\ memo = NoMemo(<< >>)

\* JsHeuristicParser.parse(call.arg)
JsParseStep ==
    /\ call.op = "JsHeuristicParser.parse"
    /\ ret = None
    /\ LET r == JsParse(call.arg, lastIndex)
       IN  /\ ret' = Some(r.outcome)
           /\ lastIndex' = r.lastIndex
    /\ applied' = 1
    /\ UNCHANGED << nativeInstalled, initialized, probes, useNative, nativeModule, jsParser,
                    nativeParser, defaultParser, parsers, call, memo >>

NextPipeline == JsParseStep

SpecPipeline == InitPipeline /\ [][NextPipeline]_vars

(***************************************************************************)
(* computeConfidence on its own: one call on a result record in which each *)
(* field that carries weight is absent or present.  A group can also be    *)
(* the empty string, which extractGroup returns for a tag of blanks.  The  *)
(* record parse hands over for "Some Random Title.mkv" is among them.      *)
(***************************************************************************)
Blank ==
    [input       |-> Str("x"),
     title       |-> None,
     group       |-> None,
     episode     |-> None,
     season      |-> None,
     resolution  |-> None,
     video_codec |-> None,
     audio_codec |-> None,
     source      |-> None,
     year        |-> None,
     crc32       |-> None,
     extension   |-> None,
     version     |-> None,
     confidence  |-> [num |-> 0, den |-> 1],
     parse_mode  |-> "Light"]

ConfidenceInputs ==
    { [Blank EXCEPT !.title = t, !.group = g, !.episode = e, !.resolution = r,
                    !.video_codec = v, !.audio_codec = a, !.source = s] :
        t \in { None, Some(Str("T")) },
        g \in { None, Some(Str("")), Some(Str("G")) },
        e \in { None, Some([type |-> "single", episode |-> 1]) },
        r \in { None, Some("HD720") },
        v \in { None, Some("H264") },
        a \in { None, Some("AAC") },
        s \in { None, Some("BluRay") } }
    \cup { WithTitle(Str("Some Random Title.mkv"),
                     Extracted(Str("Some Random Title.mkv"), ZeroLastIndex)) }

InitConfidence ==
    /\ nativeInstalled = FALSE
    /\ initialized = TRUE
    /\ probes = 1
    /\ useNative = FALSE
    /\ nativeModule = "null"
    /\ jsParser = "parser"
    /\ nativeParser = "null"
    /\ lastIndex = ZeroLastIndex
    /\ defaultParser = None
    /\ parsers = << [parser |-> "js"] >>
    /\ call \in { [op |-> "computeConfidence", this |-> 1, arg |-> r] : r \in ConfidenceInputs }
    /\ ret = None
    /\ applied = 0
    /\ memo = NoMemo(<< >>)

\* this.computeConfidence(call.arg)
ComputeConfidenceStep ==
    /\ call.op = "computeConfidence"
    /\ ret = None
    /\ ret' = Some(Return(computeConfidence(call.arg)))
    /\ UNCHANGED << nativeInstalled, initialized, probes, useNative, nativeModule, jsParser,
                    nativeParser, lastIndex, defaultParser, parsers, call, applied, memo >>

NextConfidence == ComputeConfidenceStep

SpecConfidence == InitConfidence /\ [][NextConfidence]_vars

(***************************************************************************)
(* convertEpisodeSpec on its own: one call on a value of the kind the      *)
(* addon can hand over, typed unknown: null, a bare number from 0 to       *)
(* MaxNumber, or an object with any of its properties missing.             *)
(***************************************************************************)
MaxNumber == 2
Numbers == 0..MaxNumber
OptionalNumber == { None } \cup { Some(n) : n \in Numbers }
NativeValues ==
    { JsNull }
    \cup { JsNumber(n) : n \in Numbers }
    \cup { JsObject(type, episode, version, start, end, episodes) :
             type \in { None } \cup { Some(k) : k \in 0..4 },
             episode \in OptionalNumber, version \in { None, Some(2) },
             start \in { None, Some(1) }, end \in { None, Some(2) },
             episodes \in { None, Some(<< 1, 2 >>) } }

InitConvert ==
    /\ nativeInstalled = TRUE
    /\ initialized = TRUE
    /\ probes = 1
    /\ useNative = TRUE
    /\ nativeModule = "module"
    /\ jsParser = "null"
    /\ nativeParser = "parser"
    /\ lastIndex = ZeroLastIndex
    /\ defaultParser = None
    /\ parsers = << [parser |-> "native"] >>
    /\ call \in { [op |-> "convertEpisodeSpec", this |-> 1, arg |-> v] : v \in NativeValues }
    /\ ret = None
    /\ applied = 0
    /\ memo = NoMemo(<< >>)

\* convertEpisodeSpec(call.arg)
ConvertEpisodeSpecStep ==
    /\ call.op = "convertEpisodeSpec"
    /\ ret = None
    /\ ret' = Some(Return(convertEpisodeSpec(call.arg)))
    /\ UNCHANGED << nativeInstalled, initialized, probes, useNative, nativeModule, jsParser,
                    nativeParser, lastIndex, defaultParser, parsers, call, applied, memo >>

NextConvert == ConvertEpisodeSpecStep

SpecConvert == InitConvert /\ [][NextConvert]_vars

(***************************************************************************)
(* Properties.  A call has answered when ret holds its outcome; call then  *)
(* still names the operation and its argument.                             *)
(***************************************************************************)
Answered(op) == call.op = op /\ IsSome(ret)
Raised == Val(ret).kind = "error"
Returned == Val(ret).kind = "ok"
Result == Val(ret).value

\* nothing but white space, so nothing is left after trimming
AllSpace(s) == \A i \in 1..Len(s) : s[i] \in Space

\* the fields of a ParseResult (types.ts, index.ts 70-86)
ParseResultFields ==
    { "input", "title", "group", "episode", "season", "resolution", "video_codec",
      "audio_codec", "source", "year", "crc32", "extension", "version", "confidence",
      "parse_mode" }
IsParseResult(v) == DOMAIN v = ParseResultFields

\* the HeuristicParser a call was made on: 0 stands for the default parser of
\* the convenience functions
Callee == IF call.this = 0 THEN Val(defaultParser) ELSE parsers[call.this]

(* C1: HeuristicParser.parse and the exported parse raise an error exactly  *)
(* when nothing is left of the input after trimming; for every other string *)
(* they return a ParseResult.                                               *)
C1_ParseRaisesIffEmpty ==
    Answered("parse") =>
        /\ Raised <=> AllSpace(call.arg)
        /\ ~Raised => Returned /\ IsParseResult(Result)

\* parse was handed three spaces and raised
C1_Witness == Answered("parse") /\ call.arg = Str("   ") /\ Raised

(* C2: parseBatch is parse applied to each element in order.  When no       *)
(* element is empty after trimming it returns a list as long as the inputs  *)
(* whose i-th entry is what parse returns for inputs[i]; otherwise it       *)
(* raises what parse raises for the first such element, having applied      *)
(* parse to no element after it.                                            *)
EmptyElements(inputs) == { i \in 1..Len(inputs) : AllSpace(inputs[i]) }
FirstEmpty(inputs) == CHOOSE i \in EmptyElements(inputs) : \A j \in EmptyElements(inputs) : i <= j
ParseOf(input) == HeuristicParserParse(Callee, input, Mod).outcome
C2_BatchIsMapOfParse ==
    Answered("parseBatch") =>
        IF EmptyElements(call.arg) = {}
        THEN /\ Returned
             /\ Len(Result) = Len(call.arg)
             /\ \A i \in 1..Len(call.arg) : Return(Result[i]) = ParseOf(call.arg[i])
             /\ applied = Len(call.arg)
        ELSE /\ Raised
             /\ Val(ret) = ParseOf(call.arg[FirstEmpty(call.arg)])
             /\ applied = FirstEmpty(call.arg)

\* a batch of two whose second element is blank: the first one was parsed,
\* and the call raised
C2_Witness ==
    /\ Answered("parseBatch")
    /\ Len(call.arg) = 2
    /\ EmptyElements(call.arg) = {2}
    /\ Raised
    /\ applied = 2

(* C3: a parse of a string that was parsed before gives the outcome the     *)
(* first parse of that string gave, whatever calls were made in between.    *)
C3_ParseIsDeterministic ==
    (Answered("parse") /\ call.arg = memo.input /\ memo.calls >= 1) =>
        Val(ret) = Val(memo.first)

\* the same file name parsed a second time, with other calls made since the
\* first time, and a result returned
C3_Witness ==
    /\ Answered("parse")
    /\ call.arg = memo.input
    /\ memo.calls = 2
    /\ memo.between
    /\ Returned
    /\ IsSome(Result.extension)

\* the reference parser has returned a result
Parsed == Answered("JsHeuristicParser.parse") /\ Returned

(* C4: an episode that is a range has start < end; when the range pattern   *)
(* matches a pair with start >= end the call still returns, its episode is  *)
(* not a range, and if the versioned pattern did not match before, the      *)
(* episode is what the single-episode attempt gives.                        *)
BackwardRange(s) ==
    LET r == RangeAttempt(s, ZeroLastIndex)
    IN  Found(r) /\ ParseInt(r.g1) >= ParseInt(r.g2)
IsRange(e) == IsSome(e) /\ Val(e).type = "range"
C4_RangeValidity ==
    Answered("JsHeuristicParser.parse") =>
        /\ BackwardRange(Trim(call.arg)) => Returned
        /\ Returned =>
            /\ IsRange(Result.episode) => Val(Result.episode).start < Val(Result.episode).end
            /\ BackwardRange(Result.input) => ~IsRange(Result.episode)
            /\ (BackwardRange(Result.input) /\ ~Found(VersionedAttempt(Result.input, ZeroLastIndex)))
                   => Result.episode = SingleSpec(SingleAttempt(Result.input, ZeroLastIndex))

\* "T-12-01": the range pattern matches 12 and 01, and the episode is the
\* single episode 12
C4_Witness ==
    /\ Parsed
    /\ Result.input = Str("T-12-01")
    /\ BackwardRange(Result.input)
    /\ Result.episode = Some([type |-> "single", episode |-> 12])

(* C5: "[SubsPlease] Jujutsu Kaisen - 24 (1080p) [A1B2C3D4].mkv" parses to  *)
(* title "Jujutsu Kaisen", group "SubsPlease", the single episode 24,       *)
(* resolution FHD1080, crc32 "A1B2C3D4", extension "mkv" and a confidence   *)
(* above 0.5.                                                               *)
SubsPleaseName == Str("[SubsPlease] Jujutsu Kaisen - 24 (1080p) [A1B2C3D4].mkv")
C5_SubsPleaseExample ==
    (Answered("JsHeuristicParser.parse") /\ call.arg = SubsPleaseName) =>
        /\ Returned
        /\ Result.title = Some(Str("Jujutsu Kaisen"))
        /\ Result.group = Some(Str("SubsPlease"))
        /\ Result.episode = Some([type |-> "single", episode |-> 24])
        /\ Result.resolution = Some("FHD1080")
        /\ Result.crc32 = Some(Str("A1B2C3D4"))
        /\ Result.extension = Some(Str("mkv"))
        /\ 2 * Result.confidence.num > Result.confidence.den

\* the example has been parsed: five of its eight field weights are present
C5_Witness ==
    /\ Parsed
    /\ call.arg = SubsPleaseName
    /\ Result.confidence = [num |-> 5, den |-> 8]

(* C6: a dot-separated name gets as title only the words before the episode *)
(* number: "One.Piece.1084.VOSTFR.1080p.WEB.x264-AAC.mkv" has title         *)
(* "One Piece" and the single episode 1084, and                             *)
(* "Anime.Title.01.720p.WEB.x264.mkv" has title "Anime Title".              *)
C6_DotSeparatedTitle ==
    Answered("JsHeuristicParser.parse") =>
        /\ call.arg = Str("One.Piece.1084.VOSTFR.1080p.WEB.x264-AAC.mkv") =>
               /\ Returned
               /\ Result.title = Some(Str("One Piece"))
               /\ Result.episode = Some([type |-> "single", episode |-> 1084])
        /\ call.arg = Str("Anime.Title.01.720p.WEB.x264.mkv") =>
               /\ Returned
               /\ Result.title = Some(Str("Anime Title"))

(* C7: video_codec, audio_codec and source are filled from the alias tokens *)
(* that occur in the input: each is present exactly when one of its aliases *)
(* occurs, and x264 gives the video codec H264.                             *)
Aliases ==
    [video_codec |-> { Str("x264"), Str("H264"), Str("x265"), Str("HEVC"), Str("AV1"), Str("VP9") },
     audio_codec |-> { Str("FLAC"), Str("AAC"), Str("Opus"), Str("AC3") },
     source      |-> { Str("Blu-ray"), Str("WEB-DL"), Str("HDTV") }]
Mentions(s, field) == \E alias \in Aliases[field] : Includes(s, alias)
C7_CodecAndSourceAliases ==
    Parsed =>
        /\ IsSome(Result.video_codec) <=> Mentions(Result.input, "video_codec")
        /\ IsSome(Result.audio_codec) <=> Mentions(Result.input, "audio_codec")
        /\ IsSome(Result.source) <=> Mentions(Result.input, "source")
        /\ Includes(Result.input, Str("x264")) => Result.video_codec = Some("H264")

(* C8: the resolution is the one of the highest marker present in the       *)
(* input (2160 > 1080 > 720 > 480), wherever the markers stand: an input    *)
(* with both "2160p" and "720p" has UHD2160; one with no marker has none.   *)
Heights == {480, 720, 1080, 2160}
Markers(h) ==
    CASE h = 480 -> { Str("480p"), Str("480i") }
      [] h = 720 -> { Str("720p"), Str("720i") }
      [] h = 1080 -> { Str("1080p"), Str("1080i") }
      [] h = 2160 -> { Str("2160p"), Str("2160i") }
ResolutionOf(h) ==
    CASE h = 480 -> "SD480" [] h = 720 -> "HD720" [] h = 1080 -> "FHD1080" [] h = 2160 -> "UHD2160"
Present(s) == { h \in Heights : \E m \in Markers(h) : Includes(s, m) }
Highest(S) == CHOOSE h \in S : \A g \in S : g <= h
C8_ResolutionPriority ==
    Parsed =>
        /\ Result.resolution = IF Present(Result.input) = {} THEN None
                               ELSE Some(ResolutionOf(Highest(Present(Result.input))))
        /\ (Includes(Result.input, Str("2160p")) /\ Includes(Result.input, Str("720p")))
               => Result.resolution = Some("UHD2160")

\* "720p" stands before "2160p" in the input, and the resolution is UHD2160
C8_Witness ==
    /\ Parsed
    /\ IndexOf(Result.input, Str("720p")) # 0
    /\ IndexOf(Result.input, Str("2160p")) > IndexOf(Result.input, Str("720p"))
    /\ Result.resolution = Some("UHD2160")

(* C9: resolution markers are matched without regard to case: an input      *)
(* whose only marker is in upper case ("1080P", "720I") has the resolution  *)
(* of its lower-case form.                                                  *)
C9_ResolutionIgnoresCase ==
    (Parsed /\ Present(Result.input) = {}) =>
        Result.resolution = extractResolution(ToLowerCase(Result.input))

(* C10: the confidence of every result is a number from 0 to 1.             *)
C10_ConfidenceInUnitInterval ==
    Parsed =>
        /\ Result.confidence.den > 0
        /\ 0 <= Result.confidence.num
        /\ Result.confidence.num <= Result.confidence.den

\* a result with title, group, episode and resolution, the most the
\* reference parser fills: confidence 5/8
C10_Witness ==
    /\ Parsed
    /\ Result.input \in Concats(MaxTokens)
    /\ Truthy(Result.title)
    /\ Truthy(Result.group)
    /\ IsSome(Result.episode)
    /\ IsSome(Result.resolution)
    /\ Result.confidence = [num |-> 5, den |-> 8]

(* C11: the confidence never goes down when one of title, group, episode,  *)
(* resolution, video_codec, audio_codec or source goes from absent to        *)
(* present in an otherwise unchanged result.                                 *)
WeightedFields ==
    { "title", "group", "episode", "resolution", "video_codec", "audio_codec", "source" }
Filled(f) ==
    CASE f = "title" -> Some(Str("T"))
      [] f = "group" -> Some(Str("G"))
      [] f = "episode" -> Some([type |-> "single", episode |-> 1])
      [] f = "resolution" -> Some("HD720")
      [] f = "video_codec" -> Some("H264")
      [] f = "audio_codec" -> Some("AAC")
      [] f = "source" -> Some("BluRay")
NotAbove(a, b) == a.num * b.den <= b.num * a.den
C11_ConfidenceMonotone ==
    (Answered("computeConfidence") /\ Returned) =>
        \A f \in WeightedFields :
            call.arg[f] = None =>
                NotAbove(Result, computeConfidence([call.arg EXCEPT ![f] = Filled(f)]))

\* every field but the title is present, 6/7: the title takes it to 8/8
C11_Witness ==
    /\ Answered("computeConfidence")
    /\ call.arg.title = None
    /\ Result = [num |-> 6, den |-> 7]
    /\ computeConfidence([call.arg EXCEPT !.title = Filled("title")]) = [num |-> 8, den |-> 8]

(* C12: title normalization is idempotent: when the parse of an input has   *)
(* a title, the parse of that title has the same title.                     *)
TitleOf(outcome) == IF outcome.kind = "ok" THEN outcome.value.title ELSE None
C12_TitleIdempotent ==
    (Parsed /\ IsSome(Result.title)) =>
        TitleOf(JsParse(Val(Result.title), lastIndex).outcome) = Result.title

(* C13: when the addon cannot be loaded the reference parser is selected    *)
(* and no error reaches the caller: the constructor succeeds,               *)
(* isUsingNativeModule returns false and parse of a string that is not      *)
(* blank returns a result.                                                  *)
C13_FallbackWhenAddonMissing ==
    ~nativeInstalled =>
        /\ ~useNative
        /\ nativeModule = "null"
        /\ nativeParser = "null"
        /\ \A i \in 1..Len(parsers) : parsers[i].parser = "js"
        /\ Answered("new") => Returned
        /\ Answered("isUsingNativeModule") => Returned /\ Result = FALSE
        /\ (Answered("parse") /\ ~AllSpace(call.arg)) => Returned /\ IsParseResult(Result)

\* no addon, and a parse on a constructed HeuristicParser has returned
C13_Witness ==
    /\ ~nativeInstalled
    /\ initialized
    /\ Answered("parse")
    /\ call.this = 1
    /\ Returned
    /\ jsParser = "parser"

(* C14: a season that is not none is a positive integer, at least 1.         *)
C14_SeasonPositive ==
    (Parsed /\ IsSome(Result.season)) => Val(Result.season) >= 1

(* C15: a versioned episode has episode >= 0 and version >= 1.               *)
IsVersioned(e) == IsSome(e) /\ Val(e).type = "versioned"
C15_VersionedBounds ==
    (Parsed /\ IsVersioned(Result.episode)) =>
        /\ Val(Result.episode).episode >= 0
        /\ Val(Result.episode).version >= 1

(* C16: the episode is Versioned whenever the versioned pattern matches      *)
(* somewhere in the input, even if the range or the single pattern matches   *)
(* further to the left; otherwise it is Range when the match of the range    *)
(* pattern has start < end; it is Single only when neither of the two fired; *)
(* it is none only when no pattern matches.                                  *)
MatchesSomewhere(re, s) == \E p \in 1..Len(s) : Found(MatchAt(re, s, p))
ForwardRange(s) ==
    LET r == RangeAttempt(s, ZeroLastIndex)
    IN  Found(r) /\ ParseInt(r.g1) < ParseInt(r.g2)
IsSingle(e) == IsSome(e) /\ Val(e).type = "single"
C16_EpisodePriority ==
    Parsed =>
        /\ MatchesSomewhere("reEpisodeV", Result.input) =>
               /\ IsVersioned(Result.episode)
               /\ Result.episode = VersionedSpec(VersionedAttempt(Result.input, ZeroLastIndex))
        /\ (~MatchesSomewhere("reEpisodeV", Result.input) /\ ForwardRange(Result.input)) =>
               /\ IsRange(Result.episode)
               /\ Result.episode = RangeSpec(RangeAttempt(Result.input, ZeroLastIndex))
        /\ IsSingle(Result.episode) =>
               /\ ~MatchesSomewhere("reEpisodeV", Result.input)
               /\ ~ForwardRange(Result.input)
               /\ Result.episode = SingleSpec(SingleAttempt(Result.input, ZeroLastIndex))
        /\ Result.episode = None =>
               /\ ~MatchesSomewhere("reEpisodeV", Result.input)
               /\ ~MatchesSomewhere("reEpisodeRange", Result.input)
               /\ ~MatchesSomewhere("reEpisode", Result.input)

\* the range pattern matches with start < end to the left of the versioned
\* match, and the episode is Versioned ("-01-12v2")
C16_Witness ==
    /\ Parsed
    /\ IsVersioned(Result.episode)
    /\ ForwardRange(Result.input)
    /\ RangeAttempt(Result.input, ZeroLastIndex).start
           < VersionedAttempt(Result.input, ZeroLastIndex).start

(* C17: in extractTitle the removal pass of an episode variant that did not *)
(* fire leaves the working string as it is: only the pass of the variant    *)
(* that gave the episode removes text.                                      *)
WorkBeforeEpisode ==
    RemoveExtension(RemoveGroupTag(Result.input, Result.group), Result.extension)
C17_OnlyFiredPassRemoves ==
    Parsed =>
        /\ ~IsVersioned(Result.episode) =>
               RemoveVersioned(WorkBeforeEpisode) = WorkBeforeEpisode
        /\ ~IsRange(Result.episode) =>
               RemoveRange(RemoveVersioned(WorkBeforeEpisode)) = RemoveVersioned(WorkBeforeEpisode)
        /\ ~IsSingle(Result.episode) =>
               RemoveSingle(RemoveRange(RemoveVersioned(WorkBeforeEpisode)))
                   = RemoveRange(RemoveVersioned(WorkBeforeEpisode))

(* C18: when an extension is extracted, extractTitle drops the trailing     *)
(* ".<extension>" segment from the working string, in whatever letter case  *)
(* the input has it.                                                        *)
WorkBeforeExtension == RemoveGroupTag(Result.input, Result.group)
C18_ExtensionDropped ==
    (Parsed /\ IsSome(Result.extension)) =>
        RemoveExtension(WorkBeforeExtension, Result.extension)
            = SubSeq(WorkBeforeExtension, 1,
                     Len(WorkBeforeExtension) - Len(Val(Result.extension)) - 1)

(* C19: the confidence of a result is min(numerator / denominator, 1): the  *)
(* numerator is 2 for a title that is not null plus 1 for each of group,    *)
(* episode, resolution, video_codec, audio_codec and source that is not     *)
(* null, the denominator is 8 with a title and 7 without; the parse of      *)
(* "Some Random Title.mkv" scores below one half.                           *)
PresentCount(r) ==
    Cardinality({ f \in WeightedFields \ { "title" } : IsSome(r[f]) })
Numerator(r) == (IF IsSome(r.title) THEN 2 ELSE 0) + PresentCount(r)
Denominator(r) == IF IsSome(r.title) THEN 8 ELSE 7
C19_ConfidenceFormula ==
    Parsed =>
        /\ Result.confidence =
              IF Numerator(Result) > Denominator(Result)
              THEN [num |-> 1, den |-> 1]
              ELSE [num |-> Numerator(Result), den |-> Denominator(Result)]
        /\ Result.input = Str("Some Random Title.mkv") =>
              2 * Result.confidence.num < Result.confidence.den

(* C20: the digits of a parenthesized four-digit year "(dddd)" are never    *)
(* captured by an episode attempt, versioned, range or single, so they are  *)
(* never returned as an episode number; for                                 *)
(* "[Group] Title (2024) - 01 (1080p).mkv" the year is 2024 and the episode *)
(* is Single{1}, taken from "- 01".                                         *)
YearName == Str("[Group] Title (2024) - 01 (1080p).mkv")
YearDigits(s) ==
    UNION { (p + 1)..(p + 4) : p \in { q \in 1..Len(s) : Found(MatchYearAt(s, q)) } }
\* the positions of the first and of the second capture of a match m of re
FirstCapture(re, s, m) ==
    IF Found(m)
    THEN EpisodeHead(re, s, m.start)..(EpisodeHead(re, s, m.start) + Len(m.g1) - 1)
    ELSE {}
SecondCapture(m) == IF Found(m) THEN (m.end - Len(m.g2))..(m.end - 1) ELSE {}
EpisodeCaptures(s) ==
    FirstCapture("reEpisodeV", s, VersionedAttempt(s, ZeroLastIndex))
    \cup SecondCapture(VersionedAttempt(s, ZeroLastIndex))
    \cup FirstCapture("reEpisodeRange", s, RangeAttempt(s, ZeroLastIndex))
    \cup SecondCapture(RangeAttempt(s, ZeroLastIndex))
    \cup FirstCapture("reEpisode", s, SingleAttempt(s, ZeroLastIndex))
C20_YearIsNoEpisode ==
    Parsed =>
        /\ EpisodeCaptures(Result.input) \cap YearDigits(Result.input) = {}
        /\ Result.input = YearName =>
              /\ Result.year = Some(2024)
              /\ Result.episode = Some([type |-> "single", episode |-> 1])

\* the example is parsed: its year token is found and its episode attempt
\* captured the digits of "- 01"
C20_Witness ==
    /\ Parsed
    /\ Result.input = YearName
    /\ YearDigits(Result.input) = 16..19
    /\ EpisodeCaptures(Result.input) = 24..25
    /\ Result.year = Some(2024)

(* C21: over any sequence of constructions, parse, parseBatch and          *)
(* isUsingNativeModule calls the require of the addon is attempted at most  *)
(* once, and once it has been attempted the backend it selected (useNative  *)
(* and nativeModule) never changes, whatever becomes of the addon.          *)
C21_ProbeAtMostOnce ==
    [][ /\ probes' <= 1
        /\ initialized =>
              /\ initialized'
              /\ probes' = probes
              /\ useNative' = useNative
              /\ nativeModule' = nativeModule ]_vars

\* initNative has been called three times (by the constructor, by the
\* default parser's constructor and by isUsingNativeModule, which has just
\* answered), the addon is no longer what it was at the one probe, and the
\* answer is still the backend selected then
C21_Witness ==
    /\ Len(parsers) = 1
    /\ IsSome(defaultParser)
    /\ Answered("isUsingNativeModule")
    /\ Result = useNative
    /\ useNative # nativeInstalled
    /\ probes = 1

(* C22: the group of a result is none, or a string that is not empty and   *)
(* equals the trimmed interior of the "[...]" token the input begins with;  *)
(* it is never the empty string, also when the bracket holds only blanks.   *)
LeadingInterior(s) ==
    IF At(s, 1) = "[" /\ IndexOf(s, << "]" >>) # 0
    THEN Some(Trim(SubSeq(s, 2, IndexOf(s, << "]" >>) - 1)))
    ELSE None
C22_GroupNeverEmpty ==
    (Parsed /\ IsSome(Result.group)) =>
        /\ Val(Result.group) # << >>
        /\ Result.group = LeadingInterior(Result.input)

(* C23: for a bare number n >= 0 convertEpisodeSpec returns the single     *)
(* episode n; episode 0 gives Single{0}, not none.                          *)
C23_BareNumberIsSingle ==
    (Answered("convertEpisodeSpec") /\ call.arg.js = "number" /\ call.arg.num >= 0) =>
        Result = Some([type |-> "single", episode |-> call.arg.num])

====
